---------------------------- MODULE Spec2Model ----------------------------
(***************************************************************************)
(* Model of the Dixer Writer streaming pipeline of collins-gpt:            *)
(*   app/routes.py                 dixer_writer_stream (the SSE endpoint)  *)
(*   app/services/dixer_service.py build_user_prompt, parse_dixer_response,*)
(*                                 calculate_max_tokens,                   *)
(*                                 generate_dixer_stream                   *)
(*   app/services/openai_client.py get_openai_client,                      *)
(*                                 check_api_key_configured                *)
(*                                                                         *)
(* Text is modelled character by character: a Python str is a sequence of  *)
(* one-character strings.  The character written "U+0130" is LATIN CAPITAL *)
(* LETTER I WITH DOT ABOVE, and "U+0307" is COMBINING DOT ABOVE; they are  *)
(* spelled by code point because str.lower() maps the first to the two     *)
(* characters "i" "U+0307".                                                *)
(***************************************************************************)
EXTENDS Integers, Sequences, FiniteSets, TLC

VARIABLES
  OPENROUTER_API_KEY, \* the process environment variable read by os.getenv
  active,             \* the stream instances that take steps in this run
  request,            \* request[s]: the JSON body posted to /dixer-writer/stream
  pc,                 \* pc[s]: where the handler / generator of s stands
  args,               \* args[s]: the arguments generate_dixer_stream was called with
  calls,              \* calls[s]: the chat.completions.create calls made for s
  upstream,           \* upstream[s]: state of the upstream stream of s
  received,           \* received[s]: the chunks the upstream stream has delivered
  full_response,      \* full_response[s]: the generator's accumulation buffer
  events,             \* events[s]: the SSE events sent to the client, in order
  frames,             \* frames[s]: the text of those events as written to the response
  failure,            \* failure[s]: <<>> or <<stage, message>> of the exception raised
  response_text,      \* argument of the parse_dixer_response call under study
  result              \* its return value, or NoResult before the call

vars == <<OPENROUTER_API_KEY, active, request, pc, args, calls, upstream,
          received, full_response, events, frames, failure, response_text, result>>

(***************************************************************************)
(* Bounds of the model.                                                    *)
(***************************************************************************)
MaxFragments == 3   \* chunks one upstream stream delivers at most
MaxPieces == 4      \* pieces a parsed text is built from at most

(***************************************************************************)
(* Python str operations, on sequences of characters.  Indices are         *)
(* Python's: 0-based, and find returns -1 when there is no occurrence.     *)
(***************************************************************************)
SetMin(S) == CHOOSE x \in S : \A y \in S : x <= y
SetMax(S) == CHOOSE x \in S : \A y \in S : x >= y

\* s[lo:hi] for 0 <= lo; hi is clamped to len(s) as Python does.
Slice(s, lo, hi) ==
  LET h == IF hi > Len(s) THEN Len(s) ELSE hi
  IN  IF lo >= h THEN <<>> ELSE SubSeq(s, lo + 1, h)

\* s[lo:]
SliceFrom(s, lo) == Slice(s, lo, Len(s))

\* the 0-based offsets at which pat occurs in s
Occurrences(s, pat) ==
  {i \in 0..(Len(s) - Len(pat)) : SubSeq(s, i + 1, i + Len(pat)) = pat}

\* pat in s
StrIn(pat, s) == Occurrences(s, pat) # {}

\* s.find(pat)
StrFind(s, pat) ==
  LET occ == Occurrences(s, pat)
  IN  IF occ = {} THEN -1 ELSE SetMin(occ)

\* s.split(sep): the list of the parts between the non-overlapping
\* occurrences of sep, scanned left to right
RECURSIVE StrSplit(_, _)
StrSplit(s, sep) ==
  LET i == StrFind(s, sep)
  IN  IF i = -1 THEN <<s>>
      ELSE <<Slice(s, 0, i)>> \o StrSplit(SliceFrom(s, i + Len(sep)), sep)

\* s.replace(old, new): every non-overlapping occurrence, left to right
RECURSIVE StrReplace(_, _, _)
StrReplace(s, old, new) ==
  LET i == StrFind(s, old)
  IN  IF i = -1 THEN s
      ELSE Slice(s, 0, i) \o new \o StrReplace(SliceFrom(s, i + Len(old)), old, new)

\* the characters str.strip() removes, among those of the model
Whitespace == {" ", "\n"}

\* s.strip()
StrStrip(s) ==
  LET keep == {i \in 1..Len(s) : s[i] \notin Whitespace}
  IN  IF keep = {} THEN <<>> ELSE SubSeq(s, SetMin(keep), SetMax(keep))

\* c.lower() for one character: a string of one or two characters
LowerChar(c) ==
  CASE c = "Q" -> <<"q">> [] c = "U" -> <<"u">> [] c = "E" -> <<"e">>
    [] c = "S" -> <<"s">> [] c = "T" -> <<"t">> [] c = "I" -> <<"i">>
    [] c = "O" -> <<"o">> [] c = "N" -> <<"n">> [] c = "A" -> <<"a">>
    [] c = "W" -> <<"w">> [] c = "R" -> <<"r">>
    [] c = "U+0130" -> <<"i", "U+0307">>
    [] OTHER -> <<c>>

\* s.lower()
RECURSIVE StrLower(_)
StrLower(s) ==
  IF s = <<>> THEN <<>> ELSE LowerChar(Head(s)) \o StrLower(Tail(s))

\* bool(s) for a str
Truthy(s) == s # <<>>

(***************************************************************************)
(* parse_dixer_response                                                    *)
(***************************************************************************)
QUESTION_HEADER == <<"#", "#", " ", "Q", "U", "E", "S", "T", "I", "O", "N">>
ANSWER_HEADER == <<"#", "#", " ", "A", "N", "S", "W", "E", "R">>
QuestionColon == <<"q", "u", "e", "s", "t", "i", "o", "n", ":">>
AnswerColon == <<"a", "n", "s", "w", "e", "r", ":">>

NoResult == [question |-> <<>>, answer |-> <<>>, raw |-> <<"?">>, returned |-> FALSE]

ParsedResult(q, a, raw) == [question |-> q, answer |-> a, raw |-> raw, returned |-> TRUE]

\* the branch taken when both headers are present
ParseHeaders(text) ==
  LET parts == StrSplit(text, ANSWER_HEADER)
      question_part == StrStrip(StrReplace(parts[1], QUESTION_HEADER, <<>>))
      answer_part == IF Len(parts) > 1 THEN StrStrip(parts[2]) ELSE <<>>
  IN  ParsedResult(question_part, answer_part, text)

\* the fallback on "question:" / "answer:", positions taken in the lowered text
ParseLabels(text) ==
  LET lower_text == StrLower(text)
      q_idx == StrFind(lower_text, QuestionColon)
      a_idx == StrFind(lower_text, AnswerColon)
  IN  IF StrIn(QuestionColon, lower_text) /\ StrIn(AnswerColon, lower_text)
      THEN IF q_idx < a_idx
           THEN ParsedResult(StrStrip(Slice(text, q_idx + 9, a_idx)),
                             StrStrip(SliceFrom(text, a_idx + 7)), text)
           ELSE ParsedResult(<<>>, <<>>, text)
      ELSE ParsedResult(<<>>, text, text)

parse_dixer_response(text) ==
  IF StrIn(QUESTION_HEADER, text) /\ StrIn(ANSWER_HEADER, text)
  THEN ParseHeaders(text)
  ELSE ParseLabels(text)

(***************************************************************************)
(* The parser under study: texts are concatenations of at most MaxPieces   *)
(* pieces.                                                                 *)
(***************************************************************************)
Pieces ==
  { QUESTION_HEADER, ANSWER_HEADER,
    <<"Q", "u", "e", "s", "t", "i", "o", "n", ":">>,
    <<"a", "n", "s", "w", "e", "r", ":">>,
    <<"x">>, <<" ">>, <<":">>, <<"U+0130">> }

RECURSIVE Concat(_)
Concat(ps) == IF ps = <<>> THEN <<>> ELSE Head(ps) \o Concat(Tail(ps))

Texts == {Concat(ps) : ps \in UNION {[1..n -> Pieces] : n \in 0..MaxPieces}}


(***************************************************************************)
(* build_user_prompt and calculate_max_tokens.  In a prompt the literal    *)
(* pieces of the f-string are kept whole, one element each; the values     *)
(* substituted into it are character sequences.                            *)
(***************************************************************************)
\* Optional[str]: None is <<>>, a str v is <<v>>
None == <<>>
Some(v) == <<v>>
OptTruthy(o) == o # None /\ Truthy(o[1])

OptionA == <<"Option A", ":", " Good News (Positive)">>
OptionB == <<"Option B", ":", " Contrast (Attack)">>

StrategyText(strategy) == IF strategy = "option_a" THEN OptionA ELSE OptionB

\* member_info when the member is named
PersonalisedInfo(name_text, electorate_text) ==
  <<"**Member Asking:** ">> \o name_text
  \o <<"\n\n**Member's Electorate:** ">> \o electorate_text
  \o <<"\n\nPlease personalise the answer with specific praise for this member and their electorate.">>

\* member_info when the member is not named
PlaceholderInfo ==
  <<"**Member Asking:** ", "Not specified",
    "\n\n**Member's Electorate:** ", "Not specified",
    "\n\nSince the member is not specified, use placeholder text in the answer opening: \"I want to thank the member for ",
    "[ELECTORATE]",
    " for their question.\" Keep the brackets as a placeholder to be filled in later.">>

\* what an f-string substitutes for an Optional[str]
FormatOpt(o) == IF o = None THEN <<"None">> ELSE o[1]

\* mutant of MemberInfo: "or" for "and", one supplied value is enough
MemberInfoEither(member_name, electorate) ==
  IF OptTruthy(member_name) \/ OptTruthy(electorate)
  THEN PersonalisedInfo(FormatOpt(member_name), FormatOpt(electorate))
  ELSE PlaceholderInfo

MemberInfo(member_name, electorate) ==
  IF OptTruthy(member_name) /\ OptTruthy(electorate)
  THEN PersonalisedInfo(FormatOpt(member_name), FormatOpt(electorate))
  ELSE PlaceholderInfo

build_user_prompt(topic, word_count, strategy, member_name, electorate) ==
  LET strategy_text == StrategyText(strategy)
      member_info == MemberInfo(member_name, electorate)
  IN  <<"Please draft a Dorothy Dixer question and ministerial answer with the following details:\n\n**Topic/Announcement:** ">>
      \o topic \o <<"\n\n">> \o member_info
      \o <<"\n\n**Strategy:** ">> \o strategy_text
      \o <<"\n\n**Target Answer Length:** Approximately ", ToString(word_count),
           " words for the answer (the question can be shorter, but aim for around ",
           ToString(word_count),
           " words in the Minister's answer).\n\nGenerate a parliamentary question following the ">>
      \o StrSplit(strategy_text, <<":">>)[1]
      \o <<" structure, and a Minister Collins-style answer.">>

TokenFactor == 2
TokenHeadroom == 500
TokenCap == 4000

Min2(a, b) == IF a <= b THEN a ELSE b

\* mutant of calculate_max_tokens: the cap is forgotten
UncappedTokens(word_count) == word_count * TokenFactor + TokenHeadroom

calculate_max_tokens(word_count) ==
  Min2(word_count * TokenFactor + TokenHeadroom, TokenCap)

(***************************************************************************)
(* The process environment and the requests.                               *)
(***************************************************************************)
Streams == {1, 2}

\* OPENROUTER_API_KEY: unset, set to the empty string, set to a key
EnvValues == {[set |-> FALSE, value |-> <<>>],
              [set |-> TRUE, value |-> <<>>],
              [set |-> TRUE, value |-> <<"k">>]}

\* os.getenv(name, default)
Getenv(env, default) == IF env.set THEN env.value ELSE default

\* mutant of check_api_key_configured: tests that the variable exists, not
\* that it is non-empty
KeyVariableIsSet(env) == env.set

check_api_key_configured(env) == Truthy(Getenv(env, <<>>))

Topics == {<<>>, <<" ">>, <<" ", "t", " ">>}
WordCounts == {100, 400, 1749, 1750, 2000}
Names == {<<>>, <<"M">>}
Electorates == {<<>>, <<"E">>}
Strategies == {"option_a", "option_b", "other"}

Requests == [topic : Topics, word_count : WordCounts, member_name : Names,
             electorate : Electorates, strategy : Strategies]

IdleRequest == [topic |-> <<>>, word_count |-> 100, member_name |-> <<>>,
                electorate |-> <<>>, strategy |-> "option_a"]

NoArgs == [topic |-> <<>>, word_count |-> 0, strategy |-> "", member_name |-> None,
           electorate |-> None]

(***************************************************************************)
(* The upstream: what one iteration of the chat-completion stream yields.  *)
(***************************************************************************)
FragmentTexts == {<<>>, QUESTION_HEADER, ANSWER_HEADER, <<"x">>, <<"\n">>}

\* a chunk whose delta.content is a str, one whose delta.content is None,
\* and one whose choices list is empty
Chunks == {[kind |-> "text", content |-> t] : t \in FragmentTexts}
          \cup {[kind |-> "none", content |-> <<>>],
                [kind |-> "nochoices", content |-> <<>>]}

ExceptionMessages == {"Connection error.", "Request timed out."}
IndexErrorMessage == "list index out of range"

(***************************************************************************)
(* Stream events.                                                          *)
(***************************************************************************)
ChunkEvent(text) == [kind |-> "chunk", text |-> text]
DoneEvent(q, a) == [kind |-> "done", question |-> q, answer |-> a]
ErrorEvent(msg) == [kind |-> "error", message |-> msg]

TopicMessage == "Please provide a topic or announcement."
ApiKeyMessage == "OpenRouter API key not configured."

(***************************************************************************)
(* The text of an event on the wire.  The punctuation of a frame is kept   *)
(* character by character; "data: " and the separators ": " and ", " of    *)
(* json.dumps, the keys, true and the messages are one element each.       *)
(***************************************************************************)
\* what json.dumps writes for one character of a str (ensure_ascii is on)
JsonEscapeChar(c) ==
  CASE c = "\"" -> <<"\\", "\"">>
    [] c = "\\" -> <<"\\", "\\">>
    [] c = "\n" -> <<"\\", "n">>
    [] c = "U+0130" -> <<"\\", "u", "0", "1", "3", "0">>
    [] c = "U+0307" -> <<"\\", "u", "0", "3", "0", "7">>
    [] OTHER -> <<c>>

RECURSIVE JsonEscape(_)
JsonEscape(str) ==
  IF str = <<>> THEN <<>> ELSE JsonEscapeChar(Head(str)) \o JsonEscape(Tail(str))

\* json.dumps of a str
JsonString(str) == <<"\"">> \o JsonEscape(str) \o <<"\"">>

\* json.dumps of the dict of an event
json_dumps(e) ==
  CASE e.kind = "chunk" ->
         <<"{">> \o JsonString(<<"chunk">>) \o <<": ">> \o JsonString(e.text) \o <<"}">>
    [] e.kind = "done" ->
         <<"{">> \o JsonString(<<"done">>) \o <<": ", "true", ", ">>
         \o JsonString(<<"question">>) \o <<": ">> \o JsonString(e.question) \o <<", ">>
         \o JsonString(<<"answer">>) \o <<": ">> \o JsonString(e.answer) \o <<"}">>
    [] e.kind = "error" ->
         <<"{">> \o JsonString(<<"error">>) \o <<": ">> \o JsonString(<<e.message>>) \o <<"}">>

\* f"data: {json.dumps(...)}\n\n"
SseFrame(e) == <<"data: ">> \o json_dumps(e) \o <<"\n", "\n">>

\* f"data: {{'error': '...'}}\n\n": the literal frame of the handler
LiteralErrorFrame(msg) ==
  <<"data: ", "{", "'", "error", "'", ": ", "'", msg, "'", "}", "\n", "\n">>


(***************************************************************************)
(* dixer_writer_stream: the handler of POST /dixer-writer/stream.  It      *)
(* either answers with one literal error frame or creates the generator;   *)
(* the generator's body does not run before the response is iterated.      *)
(***************************************************************************)
\* value if value else None
OrNone(v) == IF Truthy(v) THEN Some(v) ELSE None

\* mutant of TopicOf: the topic is not trimmed
TopicUntrimmed(data) == data.topic

\* topic = data.get('topic', '').strip()
TopicOf(data) == StrStrip(data.topic)

StreamArgs(data) ==
  [topic |-> TopicOf(data),
   word_count |-> data.word_count,
   strategy |-> data.strategy,
   member_name |-> OrNone(StrStrip(data.member_name)),
   electorate |-> OrNone(StrStrip(data.electorate))]

dixer_writer_stream(s) ==
  /\ s \in active
  /\ pc[s] = "request"
  /\ LET topic == TopicOf(request[s])
     IN  IF ~Truthy(topic)
         THEN /\ events' = [events EXCEPT ![s] = <<ErrorEvent(TopicMessage)>>]
              /\ frames' = [frames EXCEPT ![s] = <<LiteralErrorFrame(TopicMessage)>>]
              /\ pc' = [pc EXCEPT ![s] = "done"]
              /\ UNCHANGED args
         ELSE IF ~check_api_key_configured(OPENROUTER_API_KEY)
         THEN /\ events' = [events EXCEPT ![s] = <<ErrorEvent(ApiKeyMessage)>>]
              /\ frames' = [frames EXCEPT ![s] = <<LiteralErrorFrame(ApiKeyMessage)>>]
              /\ pc' = [pc EXCEPT ![s] = "done"]
              /\ UNCHANGED args
         ELSE /\ args' = [args EXCEPT ![s] = StreamArgs(request[s])]
              /\ pc' = [pc EXCEPT ![s] = "created"]
              /\ UNCHANGED <<events, frames>>
  /\ UNCHANGED <<OPENROUTER_API_KEY, active, request, calls, upstream, received,
                 full_response, failure, response_text, result>>

(***************************************************************************)
(* generate_dixer_stream.  The generator is resumed by the consumer of the *)
(* response; it is modelled in the steps at which it waits for upstream.   *)
(* Every statement of its try block can raise; an exception raised there   *)
(* is caught by the except clause, which yields one error event and        *)
(* returns.                                                                *)
(***************************************************************************)
\* the keyword arguments of client.chat.completions.create
CreateCall(a) ==
  [model |-> "anthropic/claude-sonnet-4",
   messages |-> <<[role |-> "system", content |-> <<"DIXER_SYSTEM_PROMPT">>],
                  [role |-> "user",
                   content |-> build_user_prompt(a.topic, a.word_count, a.strategy,
                                                 a.member_name, a.electorate)]>>,
   temperature |-> "0.7",
   max_tokens |-> calculate_max_tokens(a.word_count),
   stream |-> TRUE]

\* yield f"data: {json.dumps(...)}\n\n"
Yield(s, e) ==
  /\ events' = [events EXCEPT ![s] = Append(@, e)]
  /\ frames' = [frames EXCEPT ![s] = Append(@, SseFrame(e))]

\* mutant of Except: the error event is sent but the generator goes on
ExceptContinues(s, stage, msg) ==
  /\ Yield(s, ErrorEvent(msg))
  /\ failure' = [failure EXCEPT ![s] = <<stage, msg>>]
  /\ UNCHANGED pc

\* mutant of Except: the error event carries a fixed text, not str(e)
ExceptFixedMessage(s, stage, msg) ==
  /\ Yield(s, ErrorEvent("Error generating response"))
  /\ failure' = [failure EXCEPT ![s] = <<stage, msg>>]
  /\ pc' = [pc EXCEPT ![s] = "done"]

\* except Exception as e: yield the error event; the generator returns
Except(s, stage, msg) ==
  /\ Yield(s, ErrorEvent(msg))
  /\ failure' = [failure EXCEPT ![s] = <<stage, msg>>]
  /\ pc' = [pc EXCEPT ![s] = "done"]

\* first resumption, up to the return of chat.completions.create
Open(s) ==
  /\ s \in active
  /\ pc[s] = "created"
  /\ \/ /\ calls' = [calls EXCEPT ![s] = Append(@, CreateCall(args[s]))]
        /\ upstream' = [upstream EXCEPT ![s] = "open"]
        /\ full_response' = [full_response EXCEPT ![s] = <<>>]
        /\ pc' = [pc EXCEPT ![s] = "streaming"]
        /\ UNCHANGED <<events, frames, failure>>
     \/ \E stage \in {"client", "prompt"}, msg \in ExceptionMessages :
          /\ Except(s, stage, msg)
          /\ UNCHANGED <<calls, upstream, full_response>>
     \/ \E msg \in ExceptionMessages :
          /\ calls' = [calls EXCEPT ![s] = Append(@, CreateCall(args[s]))]
          /\ upstream' = [upstream EXCEPT ![s] = "failed"]
          /\ Except(s, "create", msg)
          /\ UNCHANGED full_response
  /\ UNCHANGED <<OPENROUTER_API_KEY, active, request, args, received,
                 response_text, result>>

\* mutant of HasContent: tests that content is a str, not that it is non-empty
HasStrContent(chunk) == chunk.kind = "text"

\* if chunk.choices[0].delta.content:
HasContent(chunk) == chunk.kind = "text" /\ Truthy(chunk.content)

\* mutant of Accumulate: "=" for "+=", the buffer keeps the last fragment only
AccumulateLast(buffer, content) == content

\* full_response += content
Accumulate(buffer, content) == buffer \o content

\* mutant of ReadChunk: full_response is one buffer of the module, written by
\* every instance, not a local of the generator
ReadChunkSharedBuffer(s, chunk) ==
  /\ s \in active
  /\ pc[s] = "streaming"
  /\ upstream[s] = "open"
  /\ Len(received[s]) < MaxFragments
  /\ received' = [received EXCEPT ![s] = Append(@, chunk)]
  /\ IF chunk.kind = "nochoices"
     THEN /\ Except(s, "read", IndexErrorMessage)
          /\ UNCHANGED full_response
     ELSE IF HasContent(chunk)
     THEN /\ full_response' = [t \in Streams |-> Accumulate(full_response[t], chunk.content)]
          /\ Yield(s, ChunkEvent(chunk.content))
          /\ UNCHANGED <<pc, failure>>
     ELSE UNCHANGED <<full_response, events, frames, pc, failure>>
  /\ UNCHANGED <<OPENROUTER_API_KEY, active, request, args, calls, upstream,
                 response_text, result>>

\* one iteration of "for chunk in stream" on a delivered chunk
ReadChunk(s, chunk) ==
  /\ s \in active
  /\ pc[s] = "streaming"
  /\ upstream[s] = "open"
  /\ Len(received[s]) < MaxFragments
  /\ received' = [received EXCEPT ![s] = Append(@, chunk)]
  /\ IF chunk.kind = "nochoices"
     THEN /\ Except(s, "read", IndexErrorMessage)
          /\ UNCHANGED full_response
     ELSE IF HasContent(chunk)
     THEN /\ full_response' = [full_response EXCEPT ![s] = Accumulate(@, chunk.content)]
          /\ Yield(s, ChunkEvent(chunk.content))
          /\ UNCHANGED <<pc, failure>>
     ELSE UNCHANGED <<full_response, events, frames, pc, failure>>
  /\ UNCHANGED <<OPENROUTER_API_KEY, active, request, args, calls, upstream,
                 response_text, result>>

\* the upstream stream raises while the generator waits for the next chunk
ReadError(s, msg) ==
  /\ s \in active
  /\ pc[s] = "streaming"
  /\ upstream[s] = "open"
  /\ upstream' = [upstream EXCEPT ![s] = "failed"]
  /\ Except(s, "read", msg)
  /\ UNCHANGED <<OPENROUTER_API_KEY, active, request, args, calls, received,
                 full_response, response_text, result>>

\* the upstream stream ends: the loop exits, the buffer is parsed and the
\* done event is yielded, unless the parse raises
Complete(s) ==
  /\ s \in active
  /\ pc[s] = "streaming"
  /\ upstream[s] = "open"
  /\ upstream' = [upstream EXCEPT ![s] = "completed"]
  /\ \/ LET parsed == parse_dixer_response(full_response[s])
        IN  /\ Yield(s, DoneEvent(parsed.question, parsed.answer))
            /\ pc' = [pc EXCEPT ![s] = "done"]
            /\ UNCHANGED failure
     \/ \E msg \in ExceptionMessages : Except(s, "parse", msg)
  /\ UNCHANGED <<OPENROUTER_API_KEY, active, request, args, calls, received,
                 full_response, response_text, result>>

\* the upstream goes silent for good: the connection stays up (kept alive, at
\* most, by lines that are not fragments) but no fragment, end of stream or
\* error is delivered any more.  The generator is inside "for chunk in
\* stream"; the client is built with base_url and api_key only and the create
\* call passes no timeout, and the generator runs no timer of its own, so
\* there is no step of the code out of this state.  A read timeout of the
\* transport, where one fires, is an exception raised by the iterator: it is
\* ReadError with the message "Request timed out.".
Stall(s) ==
  /\ s \in active
  /\ pc[s] = "streaming"
  /\ upstream[s] = "open"
  /\ upstream' = [upstream EXCEPT ![s] = "stalled"]
  /\ UNCHANGED <<OPENROUTER_API_KEY, active, request, pc, args, calls, received,
                 full_response, events, frames, failure, response_text, result>>

\* what becomes of the upstream connection once the generator is closed: the
\* generator holds the stream in a local and has neither a with block, a
\* finally clause nor a call of stream.close(), so the connection is given
\* back only if and when the dropped stream object is finalized
UpstreamAfterClose == {"released", "open"}

\* the consumer closes the generator while it is suspended at the yield of a
\* chunk event: GeneratorExit is raised at the yield; it is no Exception, so
\* the except clause does not catch it and the generator ends without a
\* further statement
Close(s) ==
  /\ s \in active
  /\ pc[s] = "streaming"
  /\ upstream[s] = "open"
  /\ Len(received[s]) > 0
  /\ HasContent(received[s][Len(received[s])])
  /\ pc' = [pc EXCEPT ![s] = "closed"]
  /\ \E after \in UpstreamAfterClose : upstream' = [upstream EXCEPT ![s] = after]
  /\ UNCHANGED <<OPENROUTER_API_KEY, active, request, args, calls, received,
                 full_response, events, frames, failure, response_text, result>>

(***************************************************************************)
(* The streaming endpoint: one request, one stream instance.               *)
(***************************************************************************)
InitStreams(act) ==
  /\ OPENROUTER_API_KEY \in EnvValues
  /\ active = act
  /\ \E r \in [act -> Requests] :
       request = [s \in Streams |-> IF s \in act THEN r[s] ELSE IdleRequest]
  /\ pc = [s \in Streams |-> "request"]
  /\ args = [s \in Streams |-> NoArgs]
  /\ calls = [s \in Streams |-> <<>>]
  /\ upstream = [s \in Streams |-> "none"]
  /\ received = [s \in Streams |-> <<>>]
  /\ full_response = [s \in Streams |-> <<>>]
  /\ events = [s \in Streams |-> <<>>]
  /\ frames = [s \in Streams |-> <<>>]
  /\ failure = [s \in Streams |-> <<>>]

Init ==
  /\ InitStreams({1})
  /\ response_text = <<>>
  /\ result = NoResult

Next ==
  \/ \E s \in Streams : dixer_writer_stream(s)
  \/ \E s \in Streams : Open(s)
  \/ \E s \in Streams, chunk \in Chunks : ReadChunk(s, chunk)
  \/ \E s \in Streams, msg \in ExceptionMessages : ReadError(s, msg)
  \/ \E s \in Streams : Complete(s)
  \/ \E s \in Streams : Close(s)
  \/ \E s \in Streams : Stall(s)

Spec == Init /\ [][Next]_vars

(***************************************************************************)
(* The streaming endpoint under fair scheduling: the server runs the       *)
(* handler and resumes the generator, and an upstream that is open goes on *)
(* to deliver a fragment, its end or an error.  Nothing is assumed of the  *)
(* consumer closing the stream or of the upstream going silent.            *)
(***************************************************************************)
\* what an open upstream delivers to the waiting generator
Deliver(s) ==
  \/ \E chunk \in Chunks : ReadChunk(s, chunk)
  \/ \E msg \in ExceptionMessages : ReadError(s, msg)
  \/ Complete(s)

SpecLive ==
  /\ Init
  /\ [][Next]_vars
  /\ \A s \in Streams :
       /\ WF_vars(dixer_writer_stream(s))
       /\ WF_vars(Open(s))
       /\ WF_vars(Deliver(s))

(***************************************************************************)
(* Two simultaneous requests: two instances of the handler and of the      *)
(* generator, stepping in any order.  Each generator has its own frame,    *)
(* hence its own stream, full_response and position; the instances share   *)
(* the process environment, which they only read.                          *)
(***************************************************************************)
PairEnvValues == {[set |-> FALSE, value |-> <<>>], [set |-> TRUE, value |-> <<"k">>]}

PairRequests ==
  {r \in Requests : /\ r.topic \in {<<" ">>, <<" ", "t", " ">>}
                    /\ r.word_count = 100
                    /\ r.member_name = <<"M">> /\ r.electorate = <<"E">>
                    /\ r.strategy = "option_a"}

PairChunks ==
  {c \in Chunks : \/ c.kind = "nochoices"
                  \/ c.kind = "text" /\ c.content \in {QUESTION_HEADER, <<"x">>}}

PairMessages == {"Connection error."}

InitPair ==
  /\ InitStreams(Streams)
  /\ OPENROUTER_API_KEY \in PairEnvValues
  /\ \A s \in Streams : request[s] \in PairRequests
  /\ response_text = <<>>
  /\ result = NoResult

NextPair ==
  \/ \E s \in Streams : dixer_writer_stream(s)
  \/ \E s \in Streams : Open(s)
  \/ \E s \in Streams, chunk \in PairChunks : ReadChunk(s, chunk)
  \/ \E s \in Streams, msg \in PairMessages : ReadError(s, msg)
  \/ \E s \in Streams : Complete(s)
  \/ \E s \in Streams : Close(s)
  \/ \E s \in Streams : Stall(s)

SpecPair == InitPair /\ [][NextPair]_vars

(***************************************************************************)
(* The parser alone: one call of parse_dixer_response on a text.           *)
(***************************************************************************)
InitParse ==
  /\ OPENROUTER_API_KEY = [set |-> FALSE, value |-> <<>>]
  /\ active = {}
  /\ request = [s \in Streams |-> IdleRequest]
  /\ pc = [s \in Streams |-> "request"]
  /\ args = [s \in Streams |-> NoArgs]
  /\ calls = [s \in Streams |-> <<>>]
  /\ upstream = [s \in Streams |-> "none"]
  /\ received = [s \in Streams |-> <<>>]
  /\ full_response = [s \in Streams |-> <<>>]
  /\ events = [s \in Streams |-> <<>>]
  /\ frames = [s \in Streams |-> <<>>]
  /\ failure = [s \in Streams |-> <<>>]
  /\ response_text \in Texts
  /\ result = NoResult

Parse ==
  /\ ~result.returned
  /\ result' = parse_dixer_response(response_text)
  /\ UNCHANGED <<response_text, OPENROUTER_API_KEY, active, request, pc, args,
                 calls, upstream, received, full_response, events, frames, failure>>

NextParse == Parse

SpecParse == InitParse /\ [][NextParse]_vars


(***************************************************************************)
(* Properties of the event sequence of one stream.                         *)
(***************************************************************************)
\* the texts of the chunk events of ev, in order
ChunkTextsOf(ev) ==
  LET c == SelectSeq(ev, LAMBDA e : e.kind = "chunk")
  IN  [i \in 1..Len(c) |-> c[i].text]

\* the texts of the delivered fragments that carry non-empty text, in order
NonEmptyFragments(rcv) ==
  LET f == SelectSeq(rcv, LAMBDA c : c.kind = "text" /\ Len(c.content) > 0)
  IN  [i \in 1..Len(f) |-> f[i].content]

TerminalPositions(ev) == {i \in 1..Len(ev) : ev[i].kind \in {"done", "error"}}

\* C1: a stream holds at most one terminal event (done or error), a terminal
\* event is the last event of the stream and ends it, and a stream that has
\* ended holds exactly one; so no event follows a terminal event and done and
\* error never occur together.
C1_OneTerminalEventLast ==
  \A s \in Streams :
    LET term == TerminalPositions(events[s])
    IN  /\ Cardinality(term) <= 1
        /\ term # {} => term = {Len(events[s])} /\ pc[s] = "done"
        /\ pc[s] = "done" => Cardinality(term) = 1

\* C1 witness: a stream that failed in the middle and ended: chunks, then one error
C1_Witness ==
  \E s \in Streams :
    /\ pc[s] = "done"
    /\ Len(events[s]) = 3
    /\ events[s][1].kind = "chunk" /\ events[s][2].kind = "chunk"
    /\ events[s][3].kind = "error"
    /\ upstream[s] = "failed"

\* C2: at every moment the chunk events of a stream are, element for element
\* and in order, the non-empty text fragments received so far.
C2_ChunksAreNonEmptyFragments ==
  \A s \in Streams : ChunkTextsOf(events[s]) = NonEmptyFragments(received[s])

\* C2 witness: three fragments read, the middle one without text, the outer
\* two different: two chunk events in arrival order
C2_Witness ==
  \E s \in Streams :
    /\ Len(received[s]) = 3
    /\ received[s][1].kind = "text" /\ Len(received[s][1].content) > 0
    /\ ~(received[s][2].kind = "text" /\ Len(received[s][2].content) > 0)
    /\ received[s][3].kind = "text" /\ Len(received[s][3].content) > 0
    /\ received[s][1].content # received[s][3].content
    /\ Len(events[s]) = 2

\* C3: a done event occurs only once the upstream has completed; its
\* question and answer are those of parse_dixer_response on the
\* concatenation of the non-empty fragments received, which is also the
\* concatenation of the chunk texts before it; it has no raw field.
C3_DoneIsParseOfConcatenation ==
  \A s \in Streams : \A i \in 1..Len(events[s]) :
    events[s][i].kind = "done" =>
      LET text == Concat(NonEmptyFragments(received[s]))
          parsed == parse_dixer_response(text)
      IN  /\ upstream[s] = "completed"
          /\ text = Concat(ChunkTextsOf(SubSeq(events[s], 1, i - 1)))
          /\ events[s][i].question = parsed.question
          /\ events[s][i].answer = parsed.answer
          /\ DOMAIN events[s][i] = {"kind", "question", "answer"}

\* C3 witness: header, text, header were streamed and the done event carries
\* the question split off the concatenation
C3_Witness ==
  \E s \in Streams :
    /\ Len(events[s]) = 4
    /\ events[s][4].kind = "done"
    /\ events[s][4].question = <<"x">>
    /\ Len(full_response[s]) > Len(QUESTION_HEADER) + Len(ANSWER_HEADER)

\* C4: once a failure was raised (in client construction, prompt building,
\* the create call, a read or the parse), the stream has ended and its events
\* are the chunks of the non-empty fragments received followed by exactly one
\* error event with the failure's message; there is no done event.
C4_FailureBecomesOneError ==
  \A s \in Streams :
    failure[s] # <<>> =>
      LET texts == NonEmptyFragments(received[s])
      IN  /\ pc[s] = "done"
          /\ events[s] = [i \in 1..Len(texts) |-> [kind |-> "chunk", text |-> texts[i]]]
                         \o <<[kind |-> "error", message |-> failure[s][2]]>>

\* C4 witness: the parse failed after two chunks had been sent
C4_Witness ==
  \E s \in Streams :
    /\ failure[s] # <<>> /\ failure[s][1] = "parse"
    /\ Len(events[s]) = 3
    /\ events[s][3].kind = "error"

\* whitespace only, or empty
BlankText(t) == \A i \in 1..Len(t) : t[i] \in {" ", "\n"}

\* C5: a request whose topic is empty after trimming is answered by exactly
\* one error event and no chunk, and no upstream connection is opened for it.
C5_EmptyTopicRefused ==
  \A s \in Streams :
    pc[s] # "request" /\ BlankText(request[s].topic) =>
      /\ calls[s] = <<>> /\ upstream[s] = "none"
      /\ Len(events[s]) = 1 /\ events[s][1].kind = "error"
      /\ pc[s] = "done"

\* C5 witness: a topic of one space, with a key configured, was refused
C5_Witness ==
  \E s \in Streams :
    /\ request[s].topic = <<" ">>
    /\ OPENROUTER_API_KEY.set /\ OPENROUTER_API_KEY.value # <<>>
    /\ pc[s] = "done"
    /\ events[s] = <<[kind |-> "error", message |-> TopicMessage]>>

\* C6: with OPENROUTER_API_KEY unset or empty a handled request has made no
\* chat-completion call (so none is ever repeated) and its stream is exactly
\* one error event.
C6_NoCredentialRefused ==
  \A s \in Streams :
    pc[s] # "request" /\ (~OPENROUTER_API_KEY.set \/ OPENROUTER_API_KEY.value = <<>>) =>
      /\ calls[s] = <<>> /\ upstream[s] = "none"
      /\ Len(events[s]) = 1 /\ events[s][1].kind = "error"
      /\ pc[s] = "done"

\* C6 witness: a request with a topic was refused because the variable is
\* set to the empty string
C6_Witness ==
  \E s \in Streams :
    /\ OPENROUTER_API_KEY.set /\ OPENROUTER_API_KEY.value = <<>>
    /\ ~BlankText(request[s].topic)
    /\ pc[s] = "done"
    /\ events[s] = <<[kind |-> "error", message |-> ApiKeyMessage]>>

\* C10: the max_tokens of every create call is min(word_count*2 + 500, 4000):
\* never above 4000, 4000 once word_count*2 + 500 reaches 4000, and not
\* below the budget of any smaller word count.
C10_TokenBudget ==
  \A s \in Streams : \A i \in 1..Len(calls[s]) :
    LET wc == request[s].word_count
        budget == calls[s][i].max_tokens
    IN  /\ budget = (IF wc * 2 + 500 <= 4000 THEN wc * 2 + 500 ELSE 4000)
        /\ budget <= 4000
        /\ wc * 2 + 500 >= 4000 => budget = 4000
        /\ \A w \in WordCounts : w <= wc => calculate_max_tokens(w) <= budget

\* C10 witness: a call made for 2000 words, where the cap applies
C10_Witness ==
  \E s \in Streams :
    /\ Len(calls[s]) = 1
    /\ request[s].word_count = 2000
    /\ calls[s][1].max_tokens = 4000

(***************************************************************************)
(* Properties of parse_dixer_response.                                     *)
(***************************************************************************)
\* the offset of the first case-insensitive occurrence of pat in text, or -1
CIFind(text, pat) ==
  LET occ == {i \in 0..(Len(text) - Len(pat)) :
                StrLower(SubSeq(text, i + 1, i + Len(pat))) = pat}
  IN  IF occ = {} THEN -1 ELSE SetMin(occ)

BothHeaders(text) == StrIn(QUESTION_HEADER, text) /\ StrIn(ANSWER_HEADER, text)

QuestionBeforeAnswer(text) ==
  /\ CIFind(text, QuestionColon) # -1
  /\ CIFind(text, AnswerColon) # -1
  /\ CIFind(text, QuestionColon) < CIFind(text, AnswerColon)

\* C7: for a text with both headers, the question is the text before the
\* first "## ANSWER" with "## QUESTION" removed, trimmed, and the answer is
\* all the text after the first "## ANSWER", trimmed.
C7_SplitOnceAtFirstAnswerHeader ==
  result.returned /\ BothHeaders(response_text) =>
    LET i == StrFind(response_text, ANSWER_HEADER)
    IN  /\ result.question =
             StrStrip(StrReplace(Slice(response_text, 0, i), QUESTION_HEADER, <<>>))
        /\ result.answer = StrStrip(SliceFrom(response_text, i + Len(ANSWER_HEADER)))

\* C8: for a text to which neither the header branch nor the
\* "question:" before "answer:" branch applies, the question is empty and
\* the answer is the whole text, untrimmed.
C8_FallbackWholeTextIsAnswer ==
  result.returned /\ ~BothHeaders(response_text) /\ ~QuestionBeforeAnswer(response_text) =>
    /\ result.question = <<>>
    /\ result.answer = response_text

\* C9: for a text without both headers whose first case-insensitive
\* "question:" lies before its first case-insensitive "answer:", the question
\* is the trimmed text between the two labels and the answer the trimmed text
\* after "answer:".
C9_LabelsSplit ==
  result.returned /\ ~BothHeaders(response_text) /\ QuestionBeforeAnswer(response_text) =>
    LET q == CIFind(response_text, QuestionColon)
        a == CIFind(response_text, AnswerColon)
    IN  /\ result.question = StrStrip(Slice(response_text, q + Len(QuestionColon), a))
        /\ result.answer = StrStrip(SliceFrom(response_text, a + Len(AnswerColon)))


\* On texts that str.lower() maps character for character, where the offsets
\* found in the lowered text are offsets of the text, the split of C9 is the
\* one parse_dixer_response makes.
C9_LabelsSplitWhenLowerKeepsLength ==
  Len(StrLower(response_text)) = Len(response_text) => C9_LabelsSplit


(***************************************************************************)
(* Properties of the prompt sent upstream.                                 *)
(***************************************************************************)
\* C11: the user prompt of every create call personalises only on a complete
\* pair: with member name and electorate both non-empty it holds both values
\* after their labels and the personalisation instruction; with either one
\* empty it holds "Not specified" after both labels and the [ELECTORATE]
\* placeholder instruction, and holds neither supplied value.
C11_PersonaliseOnlyOnCompletePair ==
  \A s \in Streams : \A i \in 1..Len(calls[s]) :
    LET prompt == calls[s][i].messages[2].content
        m == request[s].member_name
        e == request[s].electorate
    IN  IF Len(m) > 0 /\ Len(e) > 0
        THEN /\ StrIn(<<"**Member Asking:** ">> \o m, prompt)
             /\ StrIn(<<"\n\n**Member's Electorate:** ">> \o e, prompt)
             /\ \E k \in 1..Len(prompt) :
                  prompt[k] = "\n\nPlease personalise the answer with specific praise for this member and their electorate."
             /\ ~StrIn(<<"[ELECTORATE]">>, prompt)
             /\ ~StrIn(<<"Not specified">>, prompt)
        ELSE /\ StrIn(<<"**Member Asking:** ", "Not specified">>, prompt)
             /\ StrIn(<<"\n\n**Member's Electorate:** ", "Not specified">>, prompt)
             /\ StrIn(<<"[ELECTORATE]">>, prompt)
             /\ Len(m) > 0 => ~StrIn(m, prompt)
             /\ Len(e) > 0 => ~StrIn(e, prompt)

\* C11 witness: a call made for a request that names the member but no
\* electorate; its prompt holds the placeholder
C11_Witness ==
  \E s \in Streams :
    /\ Len(calls[s]) = 1
    /\ request[s].member_name = <<"M">>
    /\ request[s].electorate = <<>>
    /\ StrIn(<<"[ELECTORATE]">>, calls[s][1].messages[2].content)


(***************************************************************************)
(* Properties of the frames on the wire.  A frame is read back as JSON:    *)
(* strings are double-quoted, with the quote, the backslash and the        *)
(* newline escaped; members are separated by a comma and key and value by  *)
(* a colon, each with or without a following space.                        *)
(***************************************************************************)
JsonUnicode(hex) ==
  CASE hex = <<"0", "1", "3", "0">> -> "U+0130"
    [] hex = <<"0", "3", "0", "7">> -> "U+0307"
    [] OTHER -> "U+FFFD"

JsonFail == [ok |-> FALSE, value |-> <<>>, next |-> 0]

\* reads the characters of a JSON string whose opening quote precedes toks[i]
RECURSIVE JsonReadChars(_, _)
JsonReadChars(toks, i) ==
  IF i > Len(toks) \/ toks[i] = "\n" THEN JsonFail
  ELSE IF toks[i] = "\"" THEN [ok |-> TRUE, value |-> <<>>, next |-> i + 1]
  ELSE IF toks[i] = "\\"
  THEN IF i + 1 > Len(toks) THEN JsonFail
       ELSE IF toks[i + 1] = "u"
       THEN IF i + 5 > Len(toks) THEN JsonFail
            ELSE LET rest == JsonReadChars(toks, i + 6)
                 IN  [rest EXCEPT !.value = <<JsonUnicode(SubSeq(toks, i + 2, i + 5))>> \o @]
       ELSE IF toks[i + 1] \in {"n", "\"", "\\"}
       THEN LET rest == JsonReadChars(toks, i + 2)
                c == IF toks[i + 1] = "n" THEN "\n" ELSE toks[i + 1]
            IN  [rest EXCEPT !.value = <<c>> \o @]
       ELSE JsonFail
  ELSE LET rest == JsonReadChars(toks, i + 1)
       IN  [rest EXCEPT !.value = <<toks[i]>> \o @]

\* reads the members of a JSON object from toks[i] on, up to its closing
\* brace, which must be the last element
RECURSIVE JsonReadMembers(_, _)
JsonReadMembers(toks, i) ==
  IF i > Len(toks) \/ toks[i] # "\"" THEN [ok |-> FALSE, members |-> {}]
  ELSE
    LET key == JsonReadChars(toks, i + 1)
    IN  IF ~key.ok \/ key.next + 1 > Len(toks) \/ toks[key.next] \notin {":", ": "}
        THEN [ok |-> FALSE, members |-> {}]
        ELSE
          LET v == key.next + 1
              val == IF toks[v] = "\"" THEN JsonReadChars(toks, v + 1)
                     ELSE IF toks[v] = "true"
                     THEN [ok |-> TRUE, value |-> <<"true">>, next |-> v + 1]
                     ELSE JsonFail
              kind == IF toks[v] = "\"" THEN "string" ELSE "literal"
              member == <<key.value, kind, val.value>>
          IN  IF ~val.ok \/ val.next > Len(toks) THEN [ok |-> FALSE, members |-> {}]
              ELSE IF toks[val.next] = "}"
              THEN [ok |-> val.next = Len(toks), members |-> {member}]
              ELSE IF toks[val.next] \in {",", ", "}
              THEN LET more == JsonReadMembers(toks, val.next + 1)
                   IN  [ok |-> more.ok, members |-> {member} \cup more.members]
              ELSE [ok |-> FALSE, members |-> {}]

\* frame is "data: ", a JSON object with exactly these members, two newlines
IsSseJsonFrame(frame, members) ==
  /\ Len(frame) >= 5
  /\ frame[1] = "data: "
  /\ frame[2] = "{"
  /\ frame[Len(frame) - 1] = "\n" /\ frame[Len(frame)] = "\n"
  /\ LET obj == JsonReadMembers(SubSeq(frame, 2, Len(frame) - 2), 2)
     IN  obj.ok /\ obj.members = members

\* the members the object of an event has
MembersOf(e) ==
  CASE e.kind = "chunk" -> {<<(<<"chunk">>), "string", e.text>>}
    [] e.kind = "done" -> {<<(<<"done">>), "literal", <<"true">>>>,
                           <<(<<"question">>), "string", e.question>>,
                           <<(<<"answer">>), "string", e.answer>>}
    [] e.kind = "error" -> {<<(<<"error">>), "string", <<e.message>>>>}

\* C12: every event sent on the streaming endpoint, the refusals of an empty
\* topic and of a missing key included, is one frame "data: " + JSON object +
\* two newlines, the object being {"chunk": text}, {"done": true, "question":
\* text, "answer": text} or {"error": message}.
C12_EveryFrameIsJson ==
  \A s \in Streams :
    /\ Len(frames[s]) = Len(events[s])
    /\ \A i \in 1..Len(frames[s]) : IsSseJsonFrame(frames[s][i], MembersOf(events[s][i]))

\* The frames generate_dixer_stream yields are such frames; the ones that are
\* not are the literal frames of the handler.
C12_GeneratorFramesAreJson ==
  \A s \in Streams :
    /\ Len(frames[s]) = Len(events[s])
    /\ \A i \in 1..Len(frames[s]) :
         \/ IsSseJsonFrame(frames[s][i], MembersOf(events[s][i]))
         \/ /\ calls[s] = <<>> /\ failure[s] = <<>>
            /\ frames[s][i] \in {LiteralErrorFrame(TopicMessage), LiteralErrorFrame(ApiKeyMessage)}

\* a done frame with a newline in its text was sent and reads back as JSON
C12_GeneratorWitness ==
  \E s \in Streams :
    /\ Len(events[s]) = 4
    /\ events[s][2] = [kind |-> "chunk", text |-> <<"\n">>]
    /\ events[s][4].kind = "done"
    /\ IsSseJsonFrame(frames[s][4], MembersOf(events[s][4]))


(***************************************************************************)
(* Properties of a stream whose consumer went away.                        *)
(***************************************************************************)
\* a closed stream stays closed, reads nothing more and sends nothing more
ClosedStreamStops(s) ==
  pc[s] = "closed" =>
    /\ pc'[s] = "closed"
    /\ received'[s] = received[s]
    /\ events'[s] = events[s]
    /\ frames'[s] = frames[s]

\* C13: once the consumer has closed the generator after a chunk event, the
\* stream reads no further fragment from upstream, sends no further event
\* (neither done nor error), and the upstream connection is released by the
\* close.
C13_CloseStopsAndReleases ==
  [][\A s \in Streams :
       /\ ClosedStreamStops(s)
       /\ (pc[s] # "closed" /\ pc'[s] = "closed") => upstream'[s] = "released"]_vars

\* The first two parts hold: a closed stream reads and sends nothing more, and
\* its events are chunk events only.
C13_ClosedStreamStops ==
  [][\A s \in Streams :
       /\ ClosedStreamStops(s)
       /\ pc'[s] = "closed" => TerminalPositions(events'[s]) = {}]_vars

\* a stream closed after its second chunk whose connection is still held
C13_HeldWitness ==
  \E s \in Streams :
    /\ pc[s] = "closed"
    /\ Len(events[s]) = 2
    /\ upstream[s] = "open"


(***************************************************************************)
(* Termination of a stream.                                                *)
(***************************************************************************)
\* the stream was closed by its consumer, or has sent its terminal event
Ended(s) == pc[s] = "closed" \/ TerminalPositions(events[s]) # {}

\* C14: every stream that is not cancelled eventually sends a terminal event,
\* also when the upstream never delivers another fragment, its end or an
\* error: a timeout then ends the stream with an error event.
C14_EveryStreamEnds ==
  \A s \in Streams : s \in active => <>Ended(s)

\* What holds: a stream ends unless its upstream goes silent.
C14_StreamEndsUnlessStalled ==
  \A s \in Streams : s \in active => <>(Ended(s) \/ upstream[s] = "stalled")

\* a stream waiting on a silent upstream after one chunk, with no terminal event
C14_StalledWitness ==
  \E s \in Streams :
    /\ upstream[s] = "stalled"
    /\ pc[s] = "streaming"
    /\ Len(events[s]) = 1
    /\ ~Ended(s)


(***************************************************************************)
(* Properties of simultaneous streams.                                     *)
(***************************************************************************)
\* the events an instance sends when it runs alone on request data under
\* environment env, its upstream having delivered rcv and then ended (how =
\* "completed"), failed with fail = <<stage, message>>, or neither
EventsAlone(data, env, started, rcv, how, fail) ==
  IF ~started THEN <<>>
  ELSE IF ~Truthy(StrStrip(data.topic)) THEN <<ErrorEvent(TopicMessage)>>
  ELSE IF ~Truthy(Getenv(env, <<>>)) THEN <<ErrorEvent(ApiKeyMessage)>>
  ELSE
    LET texts == NonEmptyFragments(rcv)
        chunks == [i \in 1..Len(texts) |-> ChunkEvent(texts[i])]
        parsed == parse_dixer_response(Concat(texts))
    IN  IF fail # <<>> THEN chunks \o <<ErrorEvent(fail[2])>>
        ELSE IF how = "completed"
        THEN chunks \o <<DoneEvent(parsed.question, parsed.answer)>>
        ELSE chunks

\* C15: in any interleaving of the steps of two simultaneous instances, the
\* events of each instance are exactly those it sends when it runs alone on
\* its own request and its own upstream fragments, and its accumulation
\* buffer holds its own fragments only.
C15_EachInstanceAsAlone ==
  \A s \in Streams :
    /\ events[s] = EventsAlone(request[s], OPENROUTER_API_KEY, pc[s] # "request",
                               received[s], upstream[s], failure[s])
    /\ full_response[s] = Concat(NonEmptyFragments(received[s]))

\* C15 witness: both instances are running; one has ended with a done event
\* built from its two fragments while the other, which received a different
\* fragment, is still in its loop
C15_Witness ==
  \E s, t \in Streams :
    /\ s # t /\ active = Streams
    /\ pc[s] = "done" /\ Len(events[s]) = 3 /\ events[s][3].kind = "done"
    /\ events[s][3].answer = <<"x", "x">>
    /\ pc[t] = "streaming" /\ Len(events[t]) = 1
    /\ events[t][1].text = QUESTION_HEADER

=============================================================================
